---------------------------- MODULE Spec2Model ----------------------------
(***************************************************************************)
(* A model of bakthat (src/bakthat/__init__.py): the archive key codec     *)
(* (backup()'s key naming and match_filename), the interval parser, the    *)
(* interval- and rotation-based deletion, and backup()'s forward pipeline  *)
(* with its temporary files.                                               *)
(*                                                                         *)
(* Python strings are sequences of one-character strings.  A datetime is   *)
(* a record [year, month, day, hour, minute, second].                      *)
(***************************************************************************)
EXTENDS Integers, Sequences, FiniteSets, TLC

VARIABLES
    stored,   \* the keys the storage backend lists (storage_backend.ls())
    fs,       \* the paths of the files that exist on the local disk
    clock,    \* index into Instants of the current reading of datetime.utcnow()
    tmpseq,   \* how many NamedTemporaryFile names have been handed out
    ret,      \* the last call: its name, its arguments and its outcome
    prev,     \* history: the call before it, where a claim relates two calls
    input     \* the input drawn for the pure functions (codec, interval parser)

vars == <<stored, fs, clock, tmpseq, ret, prev, input>>

-----------------------------------------------------------------------------
(* Strings                                                                 *)

Digits == <<"0", "1", "2", "3", "4", "5", "6", "7", "8", "9">>

IsDigit(c) == \E i \in 1..Len(Digits) : Digits[i] = c

\* int() of one decimal digit
DigitVal(c) == (CHOOSE i \in 1..Len(Digits) : Digits[i] = c) - 1

\* the characters of the model in ascending byte order (str comparison of Python 2)
ByteOrder == <<" ", ".", "/", "0", "1", "2", "3", "4", "5", "6", "7", "8", "9",
               "D", "M", "N", "O", "W", "Y",
               "a", "b", "c", "d", "e", "f", "g", "h", "k", "m", "n", "o",
               "p", "r", "s", "t", "w", "x", "y", "z">>

Ord(c) == CHOOSE i \in 1..Len(ByteOrder) : ByteOrder[i] = c

\* s[i:] and s[:n] of Python, 0-based bounds
Drop(s, n) == IF n >= Len(s) THEN <<>> ELSE SubSeq(s, n + 1, Len(s))
Take(s, n) == IF n >= Len(s) THEN s ELSE SubSeq(s, 1, n)

\* s.startswith(p), s.endswith(p)
StartsWith(s, p) == Len(p) <= Len(s) /\ Take(s, Len(p)) = p
EndsWith(s, p) == Len(p) <= Len(s) /\ Drop(s, Len(s) - Len(p)) = p

\* p occurs in s at 0-based offset i
OccursAt(s, p, i) == i >= 0 /\ i + Len(p) <= Len(s) /\ SubSeq(s, i + 1, i + Len(p)) = p

\* a < b for str
RECURSIVE StrLess(_, _)
StrLess(a, b) ==
    IF b = <<>> THEN FALSE
    ELSE IF a = <<>> THEN TRUE
    ELSE IF a[1] # b[1] THEN Ord(a[1]) < Ord(b[1])
    ELSE StrLess(Tail(a), Tail(b))

\* sorted(S, reverse=True) of a set of distinct strings
RECURSIVE SortDesc(_)
SortDesc(S) ==
    IF S = {} THEN <<>>
    ELSE LET mx == CHOOSE x \in S : \A y \in S \ {x} : StrLess(y, x)
         IN <<mx>> \o SortDesc(S \ {mx})

\* int(s) of a non-empty string of decimal digits
RECURSIVE IntOf(_)
IntOf(s) == IF s = <<>> THEN 0 ELSE IntOf(Take(s, Len(s) - 1)) * 10 + DigitVal(s[Len(s)])

AllDigits(s) == \A i \in 1..Len(s) : IsDigit(s[i])

\* n zero-padded to w decimal digits (strftime's %Y, %m, %d, %H, %M, %S)
RECURSIVE Pad(_, _)
Pad(n, w) == IF w = 0 THEN <<>> ELSE Pad(n \div 10, w - 1) \o <<Digits[(n % 10) + 1]>>

\* str.lower() on the letters of the model
Lower(s) ==
    [i \in 1..Len(s) |-> CASE s[i] = "N" -> "n" [] s[i] = "O" -> "o" [] s[i] = "Y" -> "y"
                           [] s[i] = "D" -> "d" [] s[i] = "M" -> "m" [] s[i] = "W" -> "w"
                           [] OTHER -> s[i]]

-----------------------------------------------------------------------------
(* datetime                                                                *)

IsLeap(y) == (y % 4 = 0 /\ y % 100 # 0) \/ y % 400 = 0

DaysInMonth(y, m) ==
    IF m = 2 THEN (IF IsLeap(y) THEN 29 ELSE 28)
    ELSE IF m \in {4, 6, 9, 11} THEN 30 ELSE 31

RECURSIVE DaysBeforeMonth(_, _)
DaysBeforeMonth(y, m) == IF m <= 1 THEN 0 ELSE DaysBeforeMonth(y, m - 1) + DaysInMonth(y, m - 1)

\* date.toordinal(): 1 for 0001-01-01
ToOrdinal(dt) ==
    LET y == dt.year - 1
    IN y * 365 + y \div 4 - y \div 100 + y \div 400 + DaysBeforeMonth(dt.year, dt.month) + dt.day

SecondOfDay(dt) == dt.hour * 3600 + dt.minute * 60 + dt.second

\* the whole seconds between the seconds of two datetimes, a - b
SecondsBetween(a, b) == (ToOrdinal(a) - ToOrdinal(b)) * 86400 + SecondOfDay(a) - SecondOfDay(b)

\* _timedelta_total_seconds(a - b) > seconds: the float is the whole seconds
\* plus the difference of the microseconds, which is less than a second
TotalSecondsGreater(a, b, seconds) ==
    \/ SecondsBetween(a, b) > seconds
    \/ SecondsBetween(a, b) = seconds /\ a.microsecond > b.microsecond

\* the datetime of the same second with no microseconds
Truncated(dt) == [dt EXCEPT !.microsecond = 0]

\* date.weekday(): Monday is 0
Weekday(dt) == (ToOrdinal(dt) + 6) % 7

\* dt.strftime("%Y%m%d%H%M%S")
Strftime(dt) ==
    Pad(dt.year, 4) \o Pad(dt.month, 2) \o Pad(dt.day, 2)
        \o Pad(dt.hour, 2) \o Pad(dt.minute, 2) \o Pad(dt.second, 2)

\* the fields datetime.strptime(s, "%Y%m%d%H%M%S") reads from 14 digits
StrptimeFields(s) ==
    [year |-> IntOf(SubSeq(s, 1, 4)), month |-> IntOf(SubSeq(s, 5, 6)),
     day |-> IntOf(SubSeq(s, 7, 8)), hour |-> IntOf(SubSeq(s, 9, 10)),
     minute |-> IntOf(SubSeq(s, 11, 12)), second |-> IntOf(SubSeq(s, 13, 14)),
     microsecond |-> 0]

\* whether strptime accepts the 14 digits (it raises ValueError otherwise)
StrptimeOK(s) ==
    LET f == StrptimeFields(s)
    IN /\ f.year >= 1
       /\ f.month \in 1..12
       /\ f.day >= 1 /\ f.day <= DaysInMonth(f.year, f.month)
       /\ f.hour <= 23 /\ f.minute <= 59 /\ f.second <= 59

-----------------------------------------------------------------------------
(* Archive key codec: match_filename                                       *)

\* the width of the date component: \d{14} of both patterns
DateLen == 14

TgzExt == <<".", "t", "g", "z">>
EncExt == <<".", "e", "n", "c">>

NoMatch == [matched |-> FALSE, backup_name |-> <<>>, date_component |-> <<>>, is_enc |-> FALSE]

\* regex_key can end its backup_name group after i characters of key:
\* a dot, DateLen digits and ".tgz" follow
RegexKeyAt(key, i) ==
    /\ i >= 1
    /\ OccursAt(key, <<".">>, i)
    /\ OccursAt(key, TgzExt, i + 1 + DateLen)
    /\ AllDigits(SubSeq(key, i + 2, i + 1 + DateLen))

\* regex_key.match(key): re.match anchors the pattern at the start of key only;
\* the greedy (.+) keeps the longest backup_name that lets the rest match, and
\* the optional (\.enc)? group is taken when ".enc" follows ".tgz".
\* (No key of the model holds a newline, the one character "." refuses.)
RegexKey(key) ==
    LET I == {i \in 1..Len(key) : RegexKeyAt(key, i)}
    IN IF I = {} THEN NoMatch
       ELSE LET i == CHOOSE j \in I : \A k \in I : k <= j
            IN [matched |-> TRUE, backup_name |-> Take(key, i),
                date_component |-> SubSeq(key, i + 2, i + 1 + DateLen),
                is_enc |-> OccursAt(key, EncExt, i + 1 + DateLen + Len(TgzExt))]

\* old_regex_key can end its backup_name group after i characters of key
OldRegexKeyAt(key, i) ==
    /\ i >= 1
    /\ OccursAt(key, TgzExt, i + DateLen)
    /\ AllDigits(SubSeq(key, i + 1, i + DateLen))

\* old_regex_key.match(key): the same pattern without the dot before the date
OldRegexKey(key) ==
    LET I == {i \in 1..Len(key) : OldRegexKeyAt(key, i)}
    IN IF I = {} THEN NoMatch
       ELSE LET i == CHOOSE j \in I : \A k \in I : k <= j
            IN [matched |-> TRUE, backup_name |-> Take(key, i),
                date_component |-> SubSeq(key, i + 1, i + DateLen),
                is_enc |-> OccursAt(key, EncExt, i + DateLen + Len(TgzExt))]

\* mutant of KeyMatch: the old pattern is tried first
LegacyFirstMatch(key) ==
    LET match == OldRegexKey(key) IN IF match.matched THEN match ELSE RegexKey(key)

\* the match the loop of match_filename settles on for one key:
\* regex_key first, old_regex_key only when regex_key does not match
KeyMatch(key) ==
    LET match == RegexKey(key) IN IF match.matched THEN match ELSE OldRegexKey(key)

\* the dict match_filename appends for a key that matched
KeyRecord(key) ==
    LET m == KeyMatch(key)
    IN [filename |-> m.backup_name, key |-> key,
        backup_date |-> StrptimeFields(m.date_component), is_enc |-> m.is_enc]

\* _match_filename(filename): the listed keys that start with filename, descending
MatchKeys(filename, listing) == SortDesc({k \in listing : StartsWith(k, filename)})

\* match_filename(filename) over the backend's listing: the records of the keys
\* that start with filename and match a pattern, in descending key order.
\* raised: "Exception" for a blank filename (_match_filename), "ValueError" when
\* strptime refuses a matched date component; "" otherwise.
match_filename(filename, listing) ==
    IF filename = <<>> THEN [raised |-> "Exception", keys |-> <<>>]
    ELSE LET _keys == MatchKeys(filename, listing)
             matches == [i \in 1..Len(_keys) |-> [key |-> _keys[i], match |-> KeyMatch(_keys[i])]]
             hits == SelectSeq(matches, LAMBDA h : h.match.matched)
         IN IF \E i \in 1..Len(hits) : ~StrptimeOK(hits[i].match.date_component)
            THEN [raised |-> "ValueError", keys |-> <<>>]
            ELSE [raised |-> "", keys |-> [i \in 1..Len(hits) |-> KeyRecord(hits[i].key)]]

-----------------------------------------------------------------------------
(* backup(): naming                                                        *)

\* s.strip('/')
RECURSIVE LStripSlash(_)
LStripSlash(s) == IF s # <<>> /\ s[1] = "/" THEN LStripSlash(Tail(s)) ELSE s

RECURSIVE RStripSlash(_)
RStripSlash(s) ==
    IF s # <<>> /\ s[Len(s)] = "/" THEN RStripSlash(Take(s, Len(s) - 1)) ELSE s

\* s.split('/')[-1]: what follows the last slash
RECURSIVE LastSegment(_)
LastSegment(s) ==
    IF \E i \in 1..Len(s) : s[i] = "/"
    THEN LastSegment(Drop(s, CHOOSE i \in 1..Len(s) : s[i] = "/"))
    ELSE s

\* The disk is the set of its entries: a file is entered under its path, a
\* directory under its path with one slash at the end.

\* the path names a directory of the disk, with or without slashes at its end
IsDirectory(path, files) == (RStripSlash(path) \o <<"/">>) \in files

\* the path names a file of the disk
IsFile(path, files) == path \in files /\ path # <<>> /\ path[Len(path)] # "/"

\* os.path.exists(path)
Exists(path, files) == IsFile(path, files) \/ IsDirectory(path, files)

\* arcname = filename.strip('/').split('/')[-1]
Arcname(filename) == LastSegment(RStripSlash(LStripSlash(filename)))

\* posixpath.splitext(p) of a name without slashes: the extension starts at the
\* last dot, unless only dots precede it
SplitExt(p) ==
    LET dots == {i \in 1..Len(p) : p[i] = "."}
    IN IF dots = {} THEN [base |-> p, ext |-> <<>>]
       ELSE LET d == CHOOSE i \in dots : \A j \in dots : j <= i
            IN IF \E i \in 1..(d - 1) : p[i] # "."
               THEN [base |-> Take(p, d - 1), ext |-> Drop(p, d - 1)]
               ELSE [base |-> p, ext |-> <<>>]

\* the suffixes mimetypes.suffix_map turns into ".tar.gz"
TarGzSuffixes == {<<".", "t", "g", "z">>, <<".", "t", "a", "z">>, <<".", "t", "z">>}

\* mimetypes.guess_type(arcname) == ('application/x-tar', 'gzip'):
\* a suffix suffix_map maps to ".tar.gz", or the encoding suffix ".gz" on a
\* name whose extension is then ".tar"
AlreadyCompressed(arcname) ==
    LET e == SplitExt(arcname)
    IN \/ e.ext \in TarGzSuffixes
       \/ /\ e.ext = <<".", "g", "z">>
          /\ Lower(SplitExt(e.base).ext) = <<".", "t", "a", "r">>

\* re.sub(r'(\.t(ar\.)?gz)', '', arcname): every ".tar.gz" and ".tgz" is removed,
\* scanning from the left
RECURSIVE NewArcname(_)
NewArcname(s) ==
    IF s = <<>> THEN <<>>
    ELSE IF StartsWith(s, <<".", "t", "a", "r", ".", "g", "z">>) THEN NewArcname(Drop(s, 7))
    ELSE IF StartsWith(s, TgzExt) THEN NewArcname(Drop(s, 4))
    ELSE <<s[1]>> \o NewArcname(Tail(s))

\* backup_file_fmt.format(name, date_component), "{0}.{1}.tgz"
StoredFilename(name, date_component) == name \o <<".">> \o date_component \o TgzExt

-----------------------------------------------------------------------------
(* backup(): the forward pipeline                                          *)

\* the name tempfile.NamedTemporaryFile(delete=False) gives its n-th file
TmpPath(n) == <<"/", "t", "m", "p", "/">> \o Pad(n, 2)

\* a password argument: absent (None) or a string
NoPassword == [given |-> FALSE, value |-> <<>>]
Password(s) == [given |-> TRUE, value |-> s]

\* mutant of PasswordPrompt: a confirmation that differs is accepted
PasswordPromptNoCheck(password, prompt, typed, typed2) ==
    IF ~password.given /\ Lower(prompt) # <<"n", "o">>
    THEN [abort |-> FALSE, password |-> typed, prompts |-> IF typed # <<>> THEN 2 ELSE 1]
    ELSE [abort |-> FALSE, password |-> password.value, prompts |-> 0]

\* lines 260-267: getpass is called only when no password was given and prompt
\* is not "no"; a non-empty password is asked for again and must be repeated.
\* prompts counts the getpass calls.
PasswordPrompt(password, prompt, typed, typed2) ==
    IF ~password.given /\ Lower(prompt) # <<"n", "o">>
    THEN IF typed # <<>>
         THEN [abort |-> typed # typed2, password |-> typed, prompts |-> 2]
         ELSE [abort |-> FALSE, password |-> typed, prompts |-> 1]
    ELSE [abort |-> FALSE, password |-> password.value, prompts |-> 0]

\* mutant of RemoveUnencrypted: the input of the encryption is removed always
RemoveUnencryptedAlways(files, outname, bakthat_compression) == files \ {outname}

\* lines 301-303: the non-encrypted file is removed only if bakthat compressed it
RemoveUnencrypted(files, outname, bakthat_compression) ==
    IF bakthat_compression THEN files \ {outname} ELSE files

\* lines 317-319: after the upload the uploaded file is removed only if it is
\* the encrypted one
RemoveUploaded(files, outname, bakthat_encryption) ==
    IF bakthat_encryption THEN files \ {outname} ELSE files

\* mutant of EncryptedName: the key of an encrypted archive keeps its name
EncryptedNameForgotten(stored_filename, bakthat_encryption) == stored_filename

\* line 299: stored_filename += ".enc", inside "if password:"
EncryptedName(stored_filename, bakthat_encryption) ==
    IF bakthat_encryption THEN stored_filename \o EncExt ELSE stored_filename

\* backup(filename, prompt=prompt, password=password) at utcnow() = now, with
\* typed and typed2 the two getpass answers, encryptOK and uploadOK whether
\* encrypt_file and storage_backend.upload return or raise; files, listing and
\* n are the disk, the backend's keys and the temporary names used so far.
\* The result holds the disk, the listing and the count afterwards, and out:
\* out.raised names the step that raised ("" when none did); out.returned
\* tells backup_data from None; out.created are the temporary files this call
\* created, out.uploads the keys handed to storage_backend.upload.
\* (backup_data's size, read with os.fstat, is left out: no file content is
\* modelled.  backup_date, int(now.strftime("%s")), is kept as the datetime
\* of that second.)
backup(filename, prompt, password, typed, typed2, encryptOK, uploadOK, now, files, listing, n) ==
    LET arcname == Arcname(filename)
        date_component == Strftime(now)
        pp == PasswordPrompt(password, prompt, typed, typed2)
        compressed == AlreadyCompressed(arcname)
        bakthat_compression == ~compressed
        stored0 == StoredFilename(IF compressed THEN NewArcname(arcname) ELSE arcname,
                                  date_component)
        \* lines 270-291: the source itself, or a new temporary archive
        tmp1 == TmpPath(n + 1)
        out1 == IF compressed THEN filename ELSE tmp1
        files1 == IF compressed THEN files ELSE files \cup {tmp1}
        n1 == IF compressed THEN n ELSE n + 1
        created1 == IF compressed THEN {} ELSE {tmp1}
        \* lines 293-308: the encrypted copy
        bakthat_encryption == pp.password # <<>>
        tmp2 == TmpPath(n1 + 1)
        n2 == IF bakthat_encryption THEN n1 + 1 ELSE n1
        created2 == IF bakthat_encryption THEN created1 \cup {tmp2} ELSE created1
        files3 == IF bakthat_encryption
                  THEN RemoveUnencrypted(files1 \cup {tmp2}, out1, bakthat_compression)
                  ELSE files1
        outname == IF bakthat_encryption THEN tmp2 ELSE out1
        stored_filename == EncryptedName(stored0, bakthat_encryption)
        out(raised, returned, is_enc, key, created, uploads) ==
            [op |-> "backup", filename |-> filename, now |-> now,
             args |-> [prompt |-> prompt, password |-> password, typed |-> typed,
                       typed2 |-> typed2],
             raised |-> raised, returned |-> returned, prompts |-> pp.prompts,
             compressed |-> compressed, created |-> created, uploads |-> uploads,
             backup_data |-> [filename |-> arcname, backup_date |-> Truncated(now),
                              is_enc |-> is_enc,
                              stored_filename |-> key]]
    IN IF pp.abort
       THEN \* line 267: return None
            [fs |-> files, stored |-> listing, tmpseq |-> n,
             out |-> out("", FALSE, FALSE, stored0, {}, <<>>)]
       ELSE IF ~Exists(filename, files) \/ (compressed /\ IsDirectory(filename, files))
       THEN \* tar.add(filename) raises on a missing source, open(outname) (line
            \* 278) on a missing source and on a directory
            [fs |-> files1, stored |-> listing, tmpseq |-> n1,
             out |-> out("source", FALSE, FALSE, stored0, created1, <<>>)]
       ELSE IF bakthat_encryption /\ ~encryptOK
       THEN \* line 298: encrypt_file raises
            [fs |-> files1 \cup {tmp2}, stored |-> listing, tmpseq |-> n2,
             out |-> out("encrypt", FALSE, TRUE, stored0, created2, <<>>)]
       ELSE IF ~uploadOK
       THEN \* line 315: storage_backend.upload raises
            [fs |-> files3, stored |-> listing, tmpseq |-> n2,
             out |-> out("upload", FALSE, bakthat_encryption, stored_filename, created2,
                         <<stored_filename>>)]
       ELSE [fs |-> RemoveUploaded(files3, outname, bakthat_encryption),
             stored |-> listing \cup {stored_filename}, tmpseq |-> n2,
             out |-> out("", TRUE, bakthat_encryption, stored_filename, created2,
                         <<stored_filename>>)]

-----------------------------------------------------------------------------
(* The inputs of the model                                                 *)

DT(y, mo, d, h, mi, s) ==
    [year |-> y, month |-> mo, day |-> d, hour |-> h, minute |-> mi, second |-> s,
     microsecond |-> 0]

\* the same second, us microseconds later
Later(dt, us) == [dt EXCEPT !.microsecond = us]

\* the readings datetime.utcnow() can give, ascending; the third is a day and
\* 999999 microseconds after the second, the fifth a whole second after the
\* fourth
Instants ==
    <<DT(2012, 11, 30, 23, 59, 59), DT(2012, 12, 21, 6, 0, 0),
      Later(DT(2012, 12, 22, 6, 0, 0), 999999),
      DT(2013, 1, 1, 0, 0, 0), DT(2013, 1, 1, 0, 0, 1), DT(2013, 1, 8, 12, 30, 45),
      DT(2013, 3, 1, 9, 5, 7)>>

\* how many of the Instants a run can see
NumInstants == 5

Clocks == 1..(IF NumInstants <= Len(Instants) THEN NumInstants ELSE Len(Instants))

\* fourteen digits strptime refuses: there is no month 99
NoDate == <<"9", "9", "9", "9", "9", "9", "9", "9", "9", "9", "9", "9", "9", "9">>

\* logical names are built from at most MaxPieces of these pieces
Pieces ==
    {<<"a">>, <<".">>, <<"1">>, TgzExt, <<".", "t", "a", "r", ".", "g", "z">>,
     <<".">> \o Strftime(Instants[3]), <<".">> \o NoDate}

MaxPieces == 3

RECURSIVE NamesOf(_)
NamesOf(n) == IF n = 0 THEN {<<>>} ELSE {<<>>} \cup {p \o r : p \in Pieces, r \in NamesOf(n - 1)}

\* the logical names: not blank, no path separator
Names == NamesOf(MaxPieces) \ {<<>>}

NoCall == [op |-> "none"]

-----------------------------------------------------------------------------
(* SpecCodec: one key is stored for a drawn (name, timestamp, encrypted),  *)
(* by backup() or as an object some other writer put in the backend, and   *)
(* match_filename decodes the listing.                                     *)

\* the legacy key of a name: no dot before the date (spec, section 3)
LegacyFilename(name, date_component) == name \o date_component \o TgzExt

\* what follows ".tgz" or ".tgz.enc" in a key that is not an archive key
Junk == {<<".", "b", "a", "k">>, <<"x">>}

SomePassword == <<"p", "w">>

CodecInputs ==
    [name : Names, ts : Clocks, enc : BOOLEAN, kind : {"backup", "path", "dir", "pair", "suffix"}]

\* the source path of a drawn name: the bare name, or a directory path to it
SourcePath(in) ==
    IF in.kind = "path" THEN <<"/", "d", "/">> \o in.name \o <<"/">>
    ELSE IF in.kind = "dir" THEN <<"/", "d", "/">> \o in.name
    ELSE in.name

\* the disk entry of the source: a file for kind "backup", a directory for
\* the kinds "path" (named with the slash) and "dir" (named without it)
SourceEntry(in) ==
    IF in.kind \in {"path", "dir"} THEN <<"/", "d", "/">> \o in.name \o <<"/">> ELSE in.name

DottedKeyOf(in) ==
    StoredFilename(in.name, Strftime(Instants[in.ts])) \o (IF in.enc THEN EncExt ELSE <<>>)

LegacyKeyOf(in) ==
    LegacyFilename(in.name, Strftime(Instants[in.ts])) \o (IF in.enc THEN EncExt ELSE <<>>)

CodecInit ==
    /\ input \in CodecInputs
    /\ stored = {}
    /\ fs = {SourceEntry(input)}
    /\ clock = input.ts
    /\ tmpseq = 0
    /\ ret = NoCall
    /\ prev = NoCall

\* backup(SourcePath, password=...) with the password given by the caller
CodecBackup ==
    /\ ret = NoCall
    /\ input.kind \in {"backup", "path", "dir"}
    /\ LET r == backup(SourcePath(input), <<"y", "e", "s">>,
                       Password(IF input.enc THEN SomePassword ELSE <<>>),
                       <<>>, <<>>, TRUE, TRUE, Instants[clock], fs, stored, tmpseq)
       IN /\ stored' = r.stored
          /\ fs' = r.fs
          /\ tmpseq' = r.tmpseq
          /\ ret' = r.out
    /\ prev' = ret
    /\ UNCHANGED <<clock, input>>

\* the backend holds the legacy key and the dotted key of the drawn triple
CodecStorePair ==
    /\ ret = NoCall
    /\ input.kind = "pair"
    /\ stored' = {LegacyKeyOf(input), DottedKeyOf(input)}
    /\ ret' = [op |-> "put"]
    /\ prev' = ret
    /\ UNCHANGED <<fs, clock, tmpseq, input>>

\* the backend holds an object whose name goes on after the archive key
CodecStoreSuffixed ==
    /\ ret = NoCall
    /\ input.kind = "suffix"
    /\ \E j \in Junk : stored' = {DottedKeyOf(input) \o j}
    /\ ret' = [op |-> "put"]
    /\ prev' = ret
    /\ UNCHANGED <<fs, clock, tmpseq, input>>

\* match_filename(filename) for the drawn name or its first character
CodecMatchFilename ==
    /\ ret.op \in {"backup", "put"}
    /\ \E f \in {input.name, Take(input.name, 1)} :
          ret' = [op |-> "match_filename", filename |-> f,
                  result |-> match_filename(f, stored)]
    /\ prev' = ret
    /\ UNCHANGED <<stored, fs, clock, tmpseq, input>>

CodecNext == CodecBackup \/ CodecStorePair \/ CodecStoreSuffixed \/ CodecMatchFilename

SpecCodec == CodecInit /\ [][CodecNext]_vars

\* the records of a match_filename result, and the one of a key
Records(result) == {result.keys[i] : i \in 1..Len(result.keys)}
RecordOf(result, key) == CHOOSE r \in Records(result) : r.key = key
HasRecord(result, key) == \E r \in Records(result) : r.key = key

\* the whole of key is name, optional dot, DateLen digits, ".tgz", optional ".enc"
WholeKey(key) ==
    \E tail \in {TgzExt, TgzExt \o EncExt} :
        /\ EndsWith(key, tail)
        /\ LET body == Take(key, Len(key) - Len(tail))
           IN /\ Len(body) > DateLen
              /\ AllDigits(Drop(body, Len(body) - DateLen))

\* C1 (as claimed): the key backup() stored decodes to the name backup()
\* reported, the timestamp of the backup and its encryption flag.
C1_RoundTrip ==
    (ret.op = "match_filename" /\ prev.op = "backup" /\ prev.returned) =>
        LET K == prev.backup_data.stored_filename
        IN /\ ret.result.raised = ""
           /\ StartsWith(K, ret.filename) => HasRecord(ret.result, K)
           /\ \A r \in Records(ret.result) :
                 r.key = K =>
                    /\ r.filename = prev.backup_data.filename
                    /\ r.backup_date = prev.backup_data.backup_date
                    /\ r.is_enc = prev.backup_data.is_enc

\* C2 (as claimed): match_filename returns a record only for a key that is,
\* as a whole, name + optional dot + 14 digits + ".tgz" + optional ".enc".
C2_WholeKeyOnly ==
    ret.op = "match_filename" => \A r \in Records(ret.result) : WholeKey(r.key)

\* C3 (as claimed): the legacy key of a triple decodes to the same name, date
\* and flag as its dotted key.
C3_LegacyAsDotted ==
    (ret.op = "match_filename" /\ input.kind = "pair" /\ ret.filename = input.name) =>
        /\ HasRecord(ret.result, LegacyKeyOf(input))
        /\ HasRecord(ret.result, DottedKeyOf(input))
        /\ LET l == RecordOf(ret.result, LegacyKeyOf(input))
               d == RecordOf(ret.result, DottedKeyOf(input))
           IN /\ l.filename = d.filename
              /\ l.backup_date = d.backup_date
              /\ l.is_enc = d.is_enc

\* the current pattern matches the legacy key and takes fourteen digits of the
\* name for the date, which strptime (line 70) refuses
LegacyKeyRefused(in) ==
    /\ RegexKey(LegacyKeyOf(in)).matched
    /\ ~StrptimeOK(RegexKey(LegacyKeyOf(in)).date_component)

\* C3 (amended): the legacy key decodes to the triple of its dotted key, which
\* is the drawn triple, whenever the current pattern does not match the legacy
\* key; the current pattern is tried first, and when it matches the legacy key
\* its groups are the record, with another name, or, when the digits it takes
\* are no date, match_filename raises ValueError and gives no record.
C3_LegacyAsDottedWhenCurrentFails ==
    (ret.op = "match_filename" /\ input.kind = "pair" /\ ret.filename = input.name) =>
        /\ LegacyKeyRefused(input) =>
              ret.result.raised = "ValueError" /\ ret.result.keys = <<>>
        /\ ~LegacyKeyRefused(input) =>
              /\ HasRecord(ret.result, LegacyKeyOf(input))
              /\ HasRecord(ret.result, DottedKeyOf(input))
              /\ LET l == RecordOf(ret.result, LegacyKeyOf(input))
                     d == RecordOf(ret.result, DottedKeyOf(input))
                     current == RegexKey(LegacyKeyOf(input))
                 IN /\ d.filename = input.name
                    /\ d.backup_date = Truncated(Instants[input.ts])
                    /\ d.is_enc = input.enc
                    /\ ~current.matched =>
                          /\ l.filename = d.filename
                          /\ l.backup_date = d.backup_date
                          /\ l.is_enc = d.is_enc
                    /\ current.matched =>
                          /\ l.filename = current.backup_name
                          /\ l.filename # input.name

\* C3 witness: a name that holds a dot and ends in a digit, stored under both
\* keys, both decoded
C3_Witness ==
    /\ ret.op = "match_filename"
    /\ input.kind = "pair"
    /\ input.name = <<"a", ".", "1">>
    /\ ret.filename = input.name
    /\ Len(ret.result.keys) = 2

-----------------------------------------------------------------------------
(* Interval parser and delete_older_than                                   *)

Units == {"s", "m", "h", "D", "W", "M", "Y"}

\* mutant of IntervalDict: "m" and "M" are taken for one another
IntervalDictSwapped(ext) ==
    CASE ext = "s" -> 1
      [] ext = "M" -> 60
      [] ext = "h" -> 3600
      [] ext = "D" -> 86400
      [] ext = "W" -> 7 * 86400
      [] ext = "m" -> 30 * 86400
      [] ext = "Y" -> 365 * 86400

\* interval_dict[ext]
IntervalDict(ext) ==
    CASE ext = "s" -> 1
      [] ext = "m" -> 60
      [] ext = "h" -> 3600
      [] ext = "D" -> 86400
      [] ext = "W" -> 7 * 86400
      [] ext = "M" -> 30 * 86400
      [] ext = "Y" -> 365 * 86400

\* how many digits s starts with: the num group of interval_regex, [0-9]+
RECURSIVE LeadingDigits(_)
LeadingDigits(s) == IF s # <<>> /\ IsDigit(s[1]) THEN 1 + LeadingDigits(Tail(s)) ELSE 0

BadInterval == [raised |-> TRUE, message |-> "Bad interval format"]

\* mutant of IntervalLoop: the loop ends at the first token it cannot take and
\* the total so far is returned
RECURSIVE IntervalLoopLenient(_, _)
IntervalLoopLenient(interval_string, seconds) ==
    IF interval_string = <<>> THEN [raised |-> FALSE, seconds |-> seconds]
    ELSE LET n == LeadingDigits(interval_string)
         IN IF n >= 1 /\ n < Len(interval_string) /\ interval_string[n + 1] \in Units
                 /\ IntOf(Take(interval_string, n)) > 0
            THEN IntervalLoopLenient(Drop(interval_string, n + 1),
                     seconds + IntOf(Take(interval_string, n)) * IntervalDict(interval_string[n + 1]))
            ELSE [raised |-> FALSE, seconds |-> seconds]

\* lines 93-104: while interval_string: match "^([0-9]+)([smhDWMY])" at its
\* start, add num * interval_dict[ext] and go on after the match; no match, or
\* a num that is not > 0, raises
RECURSIVE IntervalLoop(_, _)
IntervalLoop(interval_string, seconds) ==
    IF interval_string = <<>> THEN [raised |-> FALSE, seconds |-> seconds]
    ELSE LET n == LeadingDigits(interval_string)
         IN IF n >= 1 /\ n < Len(interval_string) /\ interval_string[n + 1] \in Units
            THEN LET num == IntOf(Take(interval_string, n))
                     ext == interval_string[n + 1]
                 IN IF num > 0
                    THEN IntervalLoop(Drop(interval_string, n + 1),
                                      seconds + num * IntervalDict(ext))
                    ELSE BadInterval
            ELSE BadInterval

_interval_string_to_seconds(interval_string) == IntervalLoop(interval_string, 0)

\* storage_backend.delete(key): the key is no longer listed (spec, section 6)
StorageDelete(listing, key) == listing \ {key}

RECURSIVE DeleteAll(_, _)
DeleteAll(listing, keys) ==
    IF keys = <<>> THEN listing ELSE DeleteAll(StorageDelete(listing, Head(keys)), Tail(keys))

\* mutant of RealKey: the decoded name is taken for the stored key
RealKeyIsName(record) == record.filename

\* lines 157 and 214: real_key = key.get("key")
RealKey(record) == record.key

\* lines 155-156: backup_age = utcnow() - backup_date, in seconds, is greater
\* than interval_seconds
TooOld(backup_date, now, interval_seconds) ==
    TotalSecondsGreater(now, backup_date, interval_seconds)

\* what a call of delete_older_than is recorded as
DeleteOlderThanOut(filename, interval, reads, raised, keys, deleted) ==
    [op |-> "delete_older_than", filename |-> filename, interval |-> interval,
     raised |-> raised, keys |-> keys, deleted |-> deleted, reads |-> reads]

\* lines 154-160: the records whose age, at the reading taken for each, is
\* greater than the interval
OldRecords(records, reads, seconds) ==
    LET read == [i \in 1..Len(records) |-> [key |-> records[i], now |-> Instants[reads[i]]]]
        old == SelectSeq(read, LAMBDA r : TooOld(r.key.backup_date, r.now, seconds))
    IN [i \in 1..Len(old) |-> old[i].key]

\* key.get("key") of each record of a list
RealKeys(records) == [i \in 1..Len(records) |-> RealKey(records[i])]

\* lines 154-162: the loop over the records of match_filename
DeleteOlderThanLoop(filename, interval, listing, reads, records, seconds) ==
    [stored |-> DeleteAll(listing, RealKeys(OldRecords(records, reads, seconds))),
     out |-> DeleteOlderThanOut(filename, interval, reads, "", RealKeys(records),
                                RealKeys(OldRecords(records, reads, seconds)))]

\* delete_older_than(filename, interval) over the backend's listing; reads[i] is
\* the reading of utcnow() taken for the i-th matched key.  out.raised is
\* "interval" when the interval string is refused (line 150, before any key is
\* read), else what match_filename raised; out.keys is the keys of the records
\* the loop went through, in its order; out.deleted is the returned list,
\* which is also the sequence of keys handed to storage_backend.delete.
delete_older_than(filename, interval, listing, reads) ==
    IF _interval_string_to_seconds(interval).raised
    THEN [stored |-> listing,
          out |-> DeleteOlderThanOut(filename, interval, reads, "interval", <<>>, <<>>)]
    ELSE IF match_filename(filename, listing).raised # ""
    THEN [stored |-> listing,
          out |-> DeleteOlderThanOut(filename, interval, reads,
                                     match_filename(filename, listing).raised, <<>>, <<>>)]
    ELSE DeleteOlderThanLoop(filename, interval, listing, reads,
                             match_filename(filename, listing).keys,
                             _interval_string_to_seconds(interval).seconds)

\* the readings of utcnow() a loop over n keys can take from clock c on: the
\* first is c, and each is the one before it or a later one
RECURSIVE ReadsFrom(_, _)
ReadsFrom(c, n) ==
    IF n = 0 THEN {<<>>}
    ELSE {<<c>> \o r : r \in UNION {ReadsFrom(d, n - 1) : d \in {e \in Clocks : e >= c}}}

-----------------------------------------------------------------------------
(* SpecInterval: an interval string is drawn, token by token, and handed   *)
(* to _interval_string_to_seconds and to delete_older_than.                *)

\* the counts a token can have: its value and how it is written
CountForms ==
    {[n |-> 0, text |-> <<"0">>], [n |-> 1, text |-> <<"1">>],
     [n |-> 10, text |-> <<"1", "0">>], [n |-> 2, text |-> <<"0", "2">>]}

Tokens == [count : CountForms, ext : Units]

MaxTokens == 2

RECURSIVE TokenSeqs(_)
TokenSeqs(n) ==
    IF n = 0 THEN {<<>>} ELSE {<<>>} \cup {<<t>> \o r : t \in Tokens, r \in TokenSeqs(n - 1)}

\* "1M3W4h2s"
ExampleTokens ==
    <<[count |-> [n |-> 1, text |-> <<"1">>], ext |-> "M"],
      [count |-> [n |-> 3, text |-> <<"3">>], ext |-> "W"],
      [count |-> [n |-> 4, text |-> <<"4">>], ext |-> "h"],
      [count |-> [n |-> 2, text |-> <<"2">>], ext |-> "s"]>>

\* a remainder that is no token: "abc", "5", "1x", " "
BadTails == {<<"a", "b", "c">>, <<"5">>, <<"1", "x">>, <<" ">>}

IntervalInputs == [tokens : TokenSeqs(MaxTokens) \cup {ExampleTokens}, tail : BadTails \cup {<<>>}]

RECURSIVE TokenText(_)
TokenText(tokens) ==
    IF tokens = <<>> THEN <<>>
    ELSE Head(tokens).count.text \o <<Head(tokens).ext>> \o TokenText(Tail(tokens))

\* the interval string of a drawn input
IntervalString(in) == TokenText(in.tokens) \o in.tail

\* the backups the backend holds when the interval is used
IntervalStore ==
    {StoredFilename(<<"a">>, Strftime(Instants[1])),
     StoredFilename(<<"a">>, Strftime(Instants[2])) \o EncExt,
     StoredFilename(<<"a">>, Strftime(Instants[4]))}

IntervalInit ==
    /\ input \in IntervalInputs
    /\ stored = IntervalStore
    /\ fs = {}
    /\ clock = 4
    /\ tmpseq = 0
    /\ ret = NoCall
    /\ prev = NoCall

IntervalParse ==
    /\ ret = NoCall
    /\ ret' = [op |-> "_interval_string_to_seconds", interval_string |-> IntervalString(input),
               result |-> _interval_string_to_seconds(IntervalString(input))]
    /\ prev' = ret
    /\ UNCHANGED <<stored, fs, clock, tmpseq, input>>

IntervalDeleteOlderThan ==
    /\ ret = NoCall
    /\ LET n == IF _interval_string_to_seconds(IntervalString(input)).raised THEN 0
                ELSE Len(match_filename(<<"a">>, stored).keys)
       IN \E reads \in ReadsFrom(clock, n) :
             LET r == delete_older_than(<<"a">>, IntervalString(input), stored, reads)
             IN /\ stored' = r.stored
                /\ ret' = r.out
                /\ clock' = IF reads = <<>> THEN clock ELSE reads[Len(reads)]
    /\ prev' = ret
    /\ UNCHANGED <<fs, tmpseq, input>>

IntervalNext == IntervalParse \/ IntervalDeleteOlderThan

SpecInterval == IntervalInit /\ [][IntervalNext]_vars

\* the seconds of one unit, as the claim lists them
UnitSeconds(ext) ==
    CASE ext = "s" -> 1 [] ext = "m" -> 60 [] ext = "h" -> 3600 [] ext = "D" -> 86400
      [] ext = "W" -> 604800 [] ext = "M" -> 2592000 [] ext = "Y" -> 31536000

RECURSIVE TokenSum(_)
TokenSum(tokens) ==
    IF tokens = <<>> THEN 0
    ELSE Head(tokens).count.n * UnitSeconds(Head(tokens).ext) + TokenSum(Tail(tokens))

Reversed(seq) == [i \in 1..Len(seq) |-> seq[Len(seq) + 1 - i]]

\* every token of the input has a count above zero and nothing follows them
WellFormed(in) == in.tail = <<>> /\ \A i \in 1..Len(in.tokens) : in.tokens[i].count.n > 0

\* C4: for a concatenation of tokens with counts above zero the parser returns
\* the sum of count * unit-seconds ("" gives 0), and the tokens taken in the
\* reverse order give the same total.
C4_IntervalSum ==
    (ret.op = "_interval_string_to_seconds" /\ WellFormed(input)) =>
        /\ ~ret.result.raised
        /\ ret.result.seconds = TokenSum(input.tokens)
        /\ _interval_string_to_seconds(TokenText(Reversed(input.tokens))) = ret.result

\* C4 witness: "1M3W4h2s" has been parsed to 2592000 + 3*604800 + 4*3600 + 2
C4_Witness ==
    /\ ret.op = "_interval_string_to_seconds"
    /\ ret.interval_string = <<"1", "M", "3", "W", "4", "h", "2", "s">>
    /\ ~ret.result.raised
    /\ ret.result.seconds = 4420802

\* C5: a string with a zero count or with a remainder that is no token makes
\* the parser raise, with no total returned, whatever precedes it; and
\* delete_older_than with such an interval raises having deleted no backup.
C5_BadIntervalFails ==
    /\ (ret.op = "_interval_string_to_seconds" /\ ~WellFormed(input)) =>
          ret.result = BadInterval
    /\ (ret.op = "delete_older_than" /\ ~WellFormed(input)) =>
          /\ ret.raised = "interval"
          /\ ret.deleted = <<>>
          /\ stored = IntervalStore

\* C5 witness: delete_older_than was called with "1D0h" ("1D" alone would have
\* deleted backups) and every backup is still stored
C5_Witness ==
    /\ ret.op = "delete_older_than"
    /\ ret.interval = <<"1", "D", "0", "h">>
    /\ ret.raised = "interval"
    /\ stored = IntervalStore
    /\ delete_older_than(<<"a">>, <<"1", "D">>, stored, <<clock, clock, clock>>).out.deleted # <<>>

-----------------------------------------------------------------------------
(* SpecPipeline: backup() is called on the sources of a disk, with every   *)
(* way of giving or typing a password and every outcome of encrypt_file    *)
(* and of the upload.                                                      *)

\* a directory, and two archives the caller compressed
Sources ==
    {<<"a">>, <<"/", "d", "/", "a", ".", "t", "g", "z">>,
     <<"a", ".", "t", "a", "r", ".", "g", "z">>}

Prompts == {<<"y", "e", "s">>, <<"n", "o">>, <<"N", "o">>}

\* what is typed at the two getpass prompts
Answers ==
    {<<<<>>, <<>>>>, <<SomePassword, SomePassword>>, <<SomePassword, <<"p", "x">>>>}

\* backup() is called while fewer than MaxTmp temporary names have been used
MaxTmp == 2

PipelineInit ==
    /\ input = [tokens |-> <<>>, tail |-> <<>>]
    /\ stored = {}
    /\ fs = Sources
    /\ clock \in Clocks
    /\ tmpseq = 0
    /\ ret = NoCall
    /\ prev = NoCall

Backup ==
    /\ tmpseq < MaxTmp
    /\ \E filename \in Sources, prompt \in Prompts,
          password \in {NoPassword, Password(<<>>), Password(SomePassword)},
          answers \in Answers, encryptOK \in BOOLEAN, uploadOK \in BOOLEAN :
          \* getpass is asked for an answer only where the prompt is reached
          /\ (password.given \/ Lower(prompt) = <<"n", "o">>) => answers = <<<<>>, <<>>>>
          /\ answers[1] = <<>> => answers[2] = <<>>
          /\
             LET r == backup(filename, prompt, password, answers[1], answers[2], encryptOK,
                             uploadOK, Instants[clock], fs, stored, tmpseq)
             IN /\ stored' = r.stored
                /\ fs' = r.fs
                /\ tmpseq' = r.tmpseq
                /\ ret' = r.out
    /\ UNCHANGED <<clock, prev, input>>

PipelineNext == Backup

SpecPipeline == PipelineInit /\ [][PipelineNext]_vars

\* the prompt is reached: no password argument, and prompt is not "no"
Prompted(args) == ~args.password.given /\ Lower(args.prompt) # <<"n", "o">>

\* C6 (as claimed): when backup() has returned or raised, none of the
\* temporary files it created is left on the disk.
C6_NoTempLeft == ret.op = "backup" => ret.created \cap fs = {}

\* C7: a source taken as already compressed is not compressed again (the only
\* temporary file is the encrypted copy) and is on the disk after backup(),
\* whether it returned or raised; no compressed source is ever deleted.
C7_CompressedSourceKept ==
    /\ \A f \in Sources : AlreadyCompressed(Arcname(f)) => f \in fs
    /\ (ret.op = "backup" /\ ret.compressed) =>
          /\ ret.filename \in fs
          /\ ret.filename \notin ret.created
          /\ Cardinality(ret.created) = (IF ret.backup_data.is_enc THEN 1 ELSE 0)

\* C7 witness: a compressed source was encrypted and uploaded; the encrypted
\* copy is gone and the source is there
C7_Witness ==
    /\ ret.op = "backup"
    /\ ret.compressed
    /\ ret.returned
    /\ ret.backup_data.is_enc
    /\ ret.created # {}
    /\ ret.created \cap fs = {}
    /\ ret.filename \in fs

\* C8: with no password argument and prompting enabled, a non-empty password
\* whose confirmation differs makes backup() return None with no temporary
\* file created and no upload called; with a password argument, or prompt
\* "no", getpass is not called.
C8_ConfirmBeforeWork ==
    ret.op = "backup" =>
        /\ (Prompted(ret.args) /\ ret.args.typed # <<>> /\ ret.args.typed # ret.args.typed2) =>
              /\ ~ret.returned
              /\ ret.raised = ""
              /\ ret.created = {}
              /\ ret.uploads = <<>>
              /\ ret.prompts = 2
        /\ ~Prompted(ret.args) => ret.prompts = 0

\* C8 witness: a password typed at the prompt and confirmed differently
C8_Witness ==
    /\ ret.op = "backup"
    /\ Prompted(ret.args)
    /\ ret.args.typed = SomePassword
    /\ ret.args.typed2 = <<"p", "x">>
    /\ ~ret.returned

-----------------------------------------------------------------------------
(* SpecAge: backups of one source pile up as the clock moves, and          *)
(* delete_older_than is called on them, again and again.                   *)

\* the source that is backed up: an archive, so that backup() uploads it as it
\* is and creates no temporary file
AgeSource == <<"a", ".", "t", "g", "z">>

\* the logical name of its backups
AgeName == <<"a">>

\* "1s", "1D", "10D"
AgeIntervals == {<<"1", "s">>, <<"1", "D">>, <<"1", "0", "D">>}

\* backup() is called while fewer than MaxStored keys are stored
MaxStored == 3

AgeInit ==
    /\ input = [tokens |-> <<>>, tail |-> <<>>]
    /\ stored = {}
    /\ fs = {AgeSource}
    /\ clock = 1
    /\ tmpseq = 0
    /\ ret = NoCall
    /\ prev = NoCall

\* datetime.utcnow() reads a later instant
Tick ==
    /\ clock + 1 \in Clocks
    /\ clock' = clock + 1
    /\ UNCHANGED <<stored, fs, tmpseq, ret, prev, input>>

\* backup(AgeSource, prompt="no")
AgeBackup ==
    /\ Cardinality(stored) < MaxStored
    /\ LET r == backup(AgeSource, <<"n", "o">>, NoPassword, <<>>, <<>>, TRUE, TRUE,
                       Instants[clock], fs, stored, tmpseq)
       IN /\ stored' = r.stored
          /\ fs' = r.fs
          /\ tmpseq' = r.tmpseq
          /\ ret' = r.out
    /\ prev' = ret
    /\ UNCHANGED <<clock, input>>

\* delete_older_than(AgeName, interval)
DeleteOlderThan ==
    /\ \E interval \in AgeIntervals :
          \E reads \in ReadsFrom(clock, Len(match_filename(AgeName, stored).keys)) :
             LET r == delete_older_than(AgeName, interval, stored, reads)
             IN /\ stored' = r.stored
                /\ ret' = r.out
                /\ clock' = IF reads = <<>> THEN clock ELSE reads[Len(reads)]
    /\ prev' = ret
    /\ UNCHANGED <<fs, tmpseq, input>>

AgeNext == AgeBackup \/ DeleteOlderThan \/ Tick

SpecAge == AgeInit /\ [][AgeNext]_vars

\* the last two calls were delete_older_than with the same filename and
\* interval (so nothing was stored in between), and neither raised
TwiceDeleteOlderThan ==
    /\ ret.op = "delete_older_than"
    /\ prev.op = "delete_older_than"
    /\ ret.filename = prev.filename
    /\ ret.interval = prev.interval
    /\ ret.raised = ""
    /\ prev.raised = ""

\* utcnow() gave one and the same reading throughout both calls
SameReading ==
    \A i \in 1..Len(ret.reads) : \A j \in 1..Len(prev.reads) : ret.reads[i] = prev.reads[j]

\* C9 (as claimed): the second of two delete_older_than calls with the same
\* filename and interval, nothing stored in between, deletes nothing.
C9_SecondDeletesNothing == TwiceDeleteOlderThan => ret.deleted = <<>>

\* C9 (amended): the second call deletes nothing when the clock reads the same
\* in both calls; it deletes no key the first call deleted; whatever it deletes
\* is a backup the first call looked at and found not yet older than the
\* interval, at the reading it took for that backup.
C9_SecondDeletesOnlyNewlyOld ==
    TwiceDeleteOlderThan =>
        /\ SameReading => ret.deleted = <<>>
        /\ \A i \in 1..Len(ret.deleted) :
              /\ KeyMatch(ret.deleted[i]).matched
              /\ \A j \in 1..Len(prev.deleted) : ret.deleted[i] # prev.deleted[j]
              /\ \E k \in 1..Len(prev.keys) :
                    /\ prev.keys[k] = ret.deleted[i]
                    /\ ~TooOld(KeyRecord(ret.deleted[i]).backup_date,
                               Instants[prev.reads[k]],
                               _interval_string_to_seconds(ret.interval).seconds)

\* C9 witness: the first call deleted a backup and left another, and the
\* second call, at the same reading, deleted nothing
C9_Witness ==
    /\ TwiceDeleteOlderThan
    /\ SameReading
    /\ prev.deleted # <<>>
    /\ ret.reads # <<>>
    /\ ret.deleted = <<>>

-----------------------------------------------------------------------------
(* Retention engine (spec, section 4.3) and rotate_backups                 *)

\* the three windows of the policy: keep_days days, keep_weeks weeks of 7 days,
\* keep_months months of 30 days, counted back from now
WithinDays(date, now, days) == ~TotalSecondsGreater(now, date, days * 86400)
WithinWeeks(date, now, weeks) == ~TotalSecondsGreater(now, date, weeks * 7 * 86400)
WithinMonths(date, now, months) ==
    ~TotalSecondsGreater(now, date, months * 30 * 86400)

\* the ordinal of the first day of the calendar week of date, weeks starting
\* on firstweekday (Monday is 0)
WeekOf(date, firstweekday) == ToOrdinal(date) - ((Weekday(date) - firstweekday + 7) % 7)

MonthOf(date) == <<date.year, date.month>>

\* the most recent date of each calendar week of a pool
NewestPerWeek(pool, firstweekday) ==
    {d \in pool : \A e \in pool :
        WeekOf(e, firstweekday) = WeekOf(d, firstweekday) => SecondsBetween(d, e) >= 0}

\* the most recent date of each calendar month of a pool
NewestPerMonth(pool) ==
    {d \in pool : \A e \in pool : MonthOf(e) = MonthOf(d) => SecondsBetween(d, e) >= 0}

\* the engine's delete set: the daily window is kept whole; of the older dates
\* within the weekly window the most recent of each calendar week is kept; of
\* the older ones within the monthly window the most recent of each calendar
\* month; everything else is deleted
to_delete(dates, days, weeks, months, firstweekday, now) ==
    LET daily == {d \in dates : WithinDays(d, now, days)}
        weekly == {d \in dates \ daily : WithinWeeks(d, now, weeks)}
        monthly == {d \in dates \ (daily \cup weekly) : WithinMonths(d, now, months)}
        keep == daily \cup NewestPerWeek(weekly, firstweekday) \cup NewestPerMonth(monthly)
    IN dates \ keep

\* RotationConfig(kwargs): absent, or the four settings as they are written
NoRotation == [set |-> FALSE, conf |-> <<>>]
Rotation(days, weeks, months, first_week_day) ==
    [set |-> TRUE,
     conf |-> [days |-> days, weeks |-> weeks, months |-> months,
               first_week_day |-> first_week_day]]

\* mutant of InToDelete: the engine's set is taken for the set to keep
InToKeep(record, dates) == record.backup_date \notin dates

\* line 213: key.get("backup_date") in to_delete
InToDelete(record, dates) == record.backup_date \in dates

\* line 204: backups_date = [backup["backup_date"] for backup in backups]
BackupsDate(backups) == {backups[i].backup_date : i \in 1..Len(backups)}

\* lines 206-210: the engine is given the four settings through int()
EngineToDelete(rotate, backups_date, now) ==
    to_delete(backups_date, IntOf(rotate.conf.days), IntOf(rotate.conf.weeks),
              IntOf(rotate.conf.months), IntOf(rotate.conf.first_week_day), now)

\* lines 212-217: the keys of the records whose date the engine gave, in the
\* order of match_filename
DoomedKeys(backups, dates) ==
    LET doomed == SelectSeq(backups, LAMBDA key : InToDelete(key, dates))
    IN [i \in 1..Len(doomed) |-> RealKey(doomed[i])]

\* what a call of rotate_backups leaves to be seen
RotateOut(filename, rotate, now, raised, backups, dates, deleted) ==
    [op |-> "rotate_backups", filename |-> filename, rotate |-> rotate, now |-> now,
     raised |-> raised, backups |-> backups, to_delete |-> dates, deleted |-> deleted]

\* lines 204-219, once match_filename has returned backups
RotateMatched(filename, rotate, listing, now, backups) ==
    LET dates == EngineToDelete(rotate, BackupsDate(backups), now)
        deleted == DoomedKeys(backups, dates)
    IN [stored |-> DeleteAll(listing, deleted),
        out |-> RotateOut(filename, rotate, now, "", backups, dates, deleted)]

\* rotate_backups(filename, **rotate) over the backend's listing at
\* utcnow() = now.  out.raised is "config" when there is no rotation
\* configuration (line 199), else what match_filename raised; out.backups are
\* the records of match_filename, out.to_delete the engine's delete set,
\* out.deleted the returned list, which is also the sequence of keys handed to
\* storage_backend.delete.
rotate_backups(filename, rotate, listing, now) ==
    IF ~rotate.set
    THEN [stored |-> listing, out |-> RotateOut(filename, rotate, now, "config", <<>>, {}, <<>>)]
    ELSE LET m == match_filename(filename, listing)
         IN IF m.raised # ""
            THEN [stored |-> listing,
                  out |-> RotateOut(filename, rotate, now, m.raised, <<>>, {}, <<>>)]
            ELSE RotateMatched(filename, rotate, listing, now, m.keys)

-----------------------------------------------------------------------------
(* SpecRotate: backups of one source pile up as the clock moves, and       *)
(* rotate_backups is called on them under several policies.                *)

\* days=7 weeks=2 months=1 from Saturday (calendar.SATURDAY is 5);
\* days=1 weeks=2 months=2 from Monday; nothing kept; no configuration
Policies ==
    {Rotation(<<"7">>, <<"2">>, <<"1">>, <<"5">>),
     Rotation(<<"1">>, <<"2">>, <<"2">>, <<"0">>),
     Rotation(<<"0">>, <<"0">>, <<"0">>, <<"5">>),
     NoRotation}

RotateBackups ==
    /\ \E rotate \in Policies :
          LET r == rotate_backups(AgeName, rotate, stored, Instants[clock])
          IN /\ stored' = r.stored
             /\ ret' = r.out
    /\ prev' = ret
    /\ UNCHANGED <<fs, clock, tmpseq, input>>

RotateNext == AgeBackup \/ RotateBackups \/ Tick

SpecRotate == AgeInit /\ [][RotateNext]_vars

SeqToSet(seq) == {seq[i] : i \in 1..Len(seq)}

\* a date is older than the three windows of a configuration
OlderThanAll(date, now, conf) ==
    /\ ~WithinDays(date, now, IntOf(conf.days))
    /\ ~WithinWeeks(date, now, IntOf(conf.weeks))
    /\ ~WithinMonths(date, now, IntOf(conf.months))

\* C10, with the engine as section 4.3 of the spec words it (the library
\* that computes the delete set is no part of the sources, so the first two
\* parts say nothing of its window boundaries): rotate_backups deletes no
\* backup dated within keep_days days of now, deletes every backup older than
\* the three windows, and deletes and returns exactly the stored keys whose
\* decoded date is in the engine's delete set.
C10_RetentionWindows ==
    (ret.op = "rotate_backups" /\ ret.raised = "") =>
        /\ \A b \in SeqToSet(ret.backups) :
              /\ WithinDays(b.backup_date, ret.now, IntOf(ret.rotate.conf.days)) =>
                    b.key \in stored /\ b.key \notin SeqToSet(ret.deleted)
              /\ OlderThanAll(b.backup_date, ret.now, ret.rotate.conf) =>
                    b.key \notin stored /\ b.key \in SeqToSet(ret.deleted)
        /\ SeqToSet(ret.deleted) =
              {b.key : b \in {c \in SeqToSet(ret.backups) : c.backup_date \in ret.to_delete}}
        /\ stored \cap SeqToSet(ret.deleted) = {}

\* C10 witness: one call kept a backup of the daily window and deleted one
\* older than every window
C10_Witness ==
    /\ ret.op = "rotate_backups"
    /\ ret.raised = ""
    /\ \E b \in SeqToSet(ret.backups) :
          /\ WithinDays(b.backup_date, ret.now, IntOf(ret.rotate.conf.days))
          /\ b.key \in stored
    /\ \E b \in SeqToSet(ret.backups) :
          /\ OlderThanAll(b.backup_date, ret.now, ret.rotate.conf)
          /\ b.key \in SeqToSet(ret.deleted)
    /\ \E b \in SeqToSet(ret.backups) :
          /\ ~WithinDays(b.backup_date, ret.now, IntOf(ret.rotate.conf.days))
          /\ b.key \in stored

-----------------------------------------------------------------------------
(* delete, restore and info: the commands that act on one matched key     *)

\* storage_backend.download(key_name): the stored object, when there is one
StorageDownload(listing, key_name) == key_name \in listing

\* delete(filename) over the backend's listing.  out.keys is the list of
\* _match_filename, out.key_name the key handed to storage_backend.delete,
\* out.deleted the keys deleted, out.returned whether True was returned.
delete(filename, listing) ==
    LET keys == IF filename = <<>> THEN <<>> ELSE MatchKeys(filename, listing)
    IN IF keys = <<>>
       THEN [stored |-> listing,
             out |-> [op |-> "delete", filename |-> filename, keys |-> keys,
                      key_name |-> <<>>, deleted |-> <<>>, returned |-> FALSE]]
       ELSE [stored |-> StorageDelete(listing, keys[1]),
             out |-> [op |-> "delete", filename |-> filename, keys |-> keys,
                      key_name |-> keys[1], deleted |-> <<keys[1]>>, returned |-> TRUE]]

\* what the object stored under a key unpacks to: the store of the model
\* keeps keys only, and the object of a key is taken to be the archive backup()
\* makes of a single file of the decoded name, encrypted with SomePassword when
\* the key ends in ".enc"; an object under any other key is no archive
Members(key_name) ==
    IF KeyMatch(key_name).matched THEN {KeyMatch(key_name).backup_name} ELSE {}

\* decrypt(out, decrypted_out, password) gives the archive back
Decrypts(key_name, password) == password = SomePassword

\* tar.extractall() cannot write a member: the member is a file and the
\* working directory has a directory of its name
ExtractFails(members, files) == \E member \in members : IsDirectory(member, files)

\* restore(filename, password=...) over the backend's listing and the files of
\* the working directory: the greatest matched key is downloaded; getpass is
\* called (answer typed) for a key ending in ".enc" when no password is given;
\* the object is decrypted and tar.extractall() unpacks it into the working
\* directory.  out.raised is "archive" when decrypt or tarfile.open raises and
\* "extract" when tar.extractall() does (line 462 is under no try): nothing is
\* returned and, the archive holding one member, nothing is written.
restore(filename, password, typed, listing, files) ==
    LET keys == IF filename = <<>> THEN <<>> ELSE MatchKeys(filename, listing)
        out(key_name, prompts, raised, returned, extracted) ==
            [op |-> "restore", filename |-> filename, keys |-> keys, key_name |-> key_name,
             prompts |-> prompts, raised |-> raised, returned |-> returned,
             extracted |-> extracted]
    IN IF keys = <<>>
       THEN [fs |-> files, out |-> out(<<>>, 0, "", FALSE, {})]
       ELSE LET key_name == SortDesc({keys[i] : i \in 1..Len(keys)})[1]
                is_enc == EndsWith(key_name, EncExt)
                asked == is_enc /\ password.value = <<>>
                prompts == IF asked THEN 1 ELSE 0
                used == IF asked THEN typed ELSE password.value
            IN IF ~StorageDownload(listing, key_name)
               THEN [fs |-> files, out |-> out(key_name, prompts, "", FALSE, {})]
               ELSE IF (is_enc /\ ~Decrypts(key_name, used)) \/ Members(key_name) = {}
               THEN [fs |-> files, out |-> out(key_name, prompts, "archive", FALSE, {})]
               ELSE IF ExtractFails(Members(key_name), files)
               THEN [fs |-> files, out |-> out(key_name, prompts, "extract", FALSE, {})]
               ELSE [fs |-> files \cup Members(key_name),
                     out |-> out(key_name, prompts, "", TRUE, Members(key_name))]

\* info(filename) over the backend's listing: the first record of
\* match_filename for the last path segment, or None
info(filename, listing) ==
    LET m == match_filename(LastSegment(filename), listing)
    IN IF m.raised # "" \/ m.keys = <<>>
       THEN [op |-> "info", filename |-> filename, raised |-> m.raised, keys |-> <<>>,
             key_name |-> <<>>, returned |-> FALSE]
       ELSE [op |-> "info", filename |-> filename, raised |-> "", 
             keys |-> [i \in 1..Len(m.keys) |-> m.keys[i].key],
             key_name |-> m.keys[1].key, returned |-> TRUE]

-----------------------------------------------------------------------------
(* SpecLatest: keys of two names, in both formats, with and without       *)
(* encryption, are stored in any order, and delete, restore and info are   *)
(* called for the shorter name.                                            *)

\* the second name, which starts with AgeName
LongerName == <<"a", "1">>

\* at most this many keys are stored
MaxKeys == 2

\* the keys backup() builds, or built in the old format, for the two names
LatestKeys ==
    {(IF legacy THEN LegacyFilename(name, Strftime(Instants[c]))
                ELSE StoredFilename(name, Strftime(Instants[c])))
        \o (IF enc THEN EncExt ELSE <<>>) :
        name \in {AgeName, LongerName}, c \in Clocks, legacy \in BOOLEAN, enc \in BOOLEAN}

\* the backend comes to list one more key
LatestPut ==
    /\ Cardinality(stored) < MaxKeys
    /\ \E key \in LatestKeys \ stored : stored' = stored \cup {key}
    /\ ret' = [op |-> "put"]
    /\ UNCHANGED <<fs, clock, tmpseq, prev, input>>

LatestDelete ==
    /\ LET r == delete(AgeName, stored)
       IN /\ stored' = r.stored
          /\ ret' = r.out
    /\ UNCHANGED <<fs, clock, tmpseq, prev, input>>

\* restore(AgeName, password=...); what is typed at getpass is drawn only
\* where getpass is reached
LatestRestore ==
    /\ \E password \in {NoPassword, Password(SomePassword)},
          typed \in {<<>>, SomePassword, <<"p", "x">>} :
          LET r == restore(AgeName, password, typed, stored, fs)
          IN /\ r.out.prompts = 0 => typed = <<>>
             /\ r.out.prompts = 1 => typed # <<>>
             /\ fs' = r.fs
             /\ ret' = r.out
    /\ UNCHANGED <<stored, clock, tmpseq, prev, input>>

LatestInfo ==
    /\ ret' = info(AgeName, stored)
    /\ UNCHANGED <<stored, fs, clock, tmpseq, prev, input>>

LatestNext == LatestPut \/ LatestDelete \/ LatestRestore \/ LatestInfo

\* the working directory holds the source and, in half of the runs, a
\* directory named like the member the backups of AgeName unpack to
LatestInit ==
    /\ input = [tokens |-> <<>>, tail |-> <<>>]
    /\ stored = {}
    /\ fs \in {{AgeSource}, {AgeSource, AgeName \o <<"/">>}}
    /\ clock = 1
    /\ tmpseq = 0
    /\ ret = NoCall
    /\ prev = NoCall

SpecLatest == LatestInit /\ [][LatestNext]_vars

\* a key was picked by delete, restore or info
ActedOnKey == ret.op \in {"delete", "restore", "info"} /\ ret.key_name # <<>>

\* the date a key decodes to
DateOf(key) == KeyRecord(key).backup_date

\* C11: the matched keys are in descending key order and, with it, in
\* descending order of their dates, so that the key delete, restore and info
\* act on is the first one and carries the latest date of the matches.
C11_MostRecentFirst ==
    ActedOnKey =>
        /\ \A i \in 1..(Len(ret.keys) - 1) : StrLess(ret.keys[i + 1], ret.keys[i])
        /\ \A i \in 1..(Len(ret.keys) - 1) :
              SecondsBetween(DateOf(ret.keys[i]), DateOf(ret.keys[i + 1])) >= 0
        /\ ret.key_name = ret.keys[1]
        /\ \A i \in 1..Len(ret.keys) :
              SecondsBetween(DateOf(ret.key_name), DateOf(ret.keys[i])) >= 0

-----------------------------------------------------------------------------
(* The encryption flag of backup(), checked under SpecPipeline             *)

\* the password backup() goes on with: the argument when there is one, else
\* what is typed at the prompt when the prompt is reached, else none
EffectivePassword(args) ==
    IF args.password.given THEN args.password.value
    ELSE IF Prompted(args) THEN args.typed ELSE <<>>

\* C12: the key handed to upload ends in ".enc" exactly when the effective
\* password is not empty, exactly when the metadata says is_enc; without
\* encryption the key matches the current pattern and has no ".enc"; and
\* match_filename decodes the stored key to the is_enc of the metadata.
C12_EncFlagConsistent ==
    ret.op = "backup" =>
        \A i \in 1..Len(ret.uploads) :
            LET key == ret.uploads[i]
                encrypting == EffectivePassword(ret.args) # <<>>
            IN /\ EndsWith(key, EncExt) <=> encrypting
               /\ ret.backup_data.is_enc <=> encrypting
               /\ key = ret.backup_data.stored_filename
               /\ ~encrypting => RegexKey(key).matched /\ ~RegexKey(key).is_enc
               /\ ret.returned =>
                     \E r \in Records(match_filename(<<key[1]>>, stored)) :
                        r.key = key /\ r.is_enc = ret.backup_data.is_enc

\* C12 witness: a password typed and confirmed at the prompt, and the backup
\* stored under a key ending in ".enc"
C12_Witness ==
    /\ ret.op = "backup"
    /\ ret.returned
    /\ Prompted(ret.args)
    /\ ret.args.typed # <<>>
    /\ ret.backup_data.is_enc
    /\ ret.uploads # <<>>
    /\ EndsWith(ret.backup_data.stored_filename, EncExt)
    /\ ret.backup_data.stored_filename \in stored

-----------------------------------------------------------------------------
(* SpecConfine: backups of two names, one starting with the other, and an  *)
(* object that is no backup, share the store; the deleting commands are    *)
(* called for the shorter name.                                            *)

\* the source of the backups of LongerName
LongerSource == <<"a", "1", ".", "t", "g", "z">>

\* an object of the store whose name starts with AgeName and is no archive key
OtherObject == <<"a", ".", "t", "x", "t">>

ConfineInit ==
    /\ input = [tokens |-> <<>>, tail |-> <<>>]
    /\ stored = {}
    /\ fs = {AgeSource, LongerSource}
    /\ clock = 1
    /\ tmpseq = 0
    /\ ret = NoCall
    /\ prev = NoCall

\* backup(source, prompt="no") of either source
ConfineBackup ==
    /\ Cardinality(stored) < MaxKeys
    /\ \E source \in {AgeSource, LongerSource} :
          LET r == backup(source, <<"n", "o">>, NoPassword, <<>>, <<>>, TRUE, TRUE,
                          Instants[clock], fs, stored, tmpseq)
          IN /\ stored' = r.stored
             /\ fs' = r.fs
             /\ tmpseq' = r.tmpseq
             /\ ret' = r.out
    /\ UNCHANGED <<clock, prev, input>>

\* the backend comes to list the other object
ConfinePut ==
    /\ OtherObject \notin stored
    /\ stored' = stored \cup {OtherObject}
    /\ ret' = [op |-> "put"]
    /\ UNCHANGED <<fs, clock, tmpseq, prev, input>>

\* delete_older_than(AgeName, "1D")
ConfineDeleteOlderThan ==
    /\ \E reads \in ReadsFrom(clock, Len(match_filename(AgeName, stored).keys)) :
          LET r == delete_older_than(AgeName, <<"1", "D">>, stored, reads)
          IN /\ stored' = r.stored
             /\ ret' = r.out
             /\ clock' = IF reads = <<>> THEN clock ELSE reads[Len(reads)]
    /\ UNCHANGED <<fs, tmpseq, prev, input>>

\* rotate_backups(AgeName, **rotate)
ConfineRotateBackups ==
    /\ \E rotate \in Policies :
          LET r == rotate_backups(AgeName, rotate, stored, Instants[clock])
          IN /\ stored' = r.stored
             /\ ret' = r.out
    /\ UNCHANGED <<fs, clock, tmpseq, prev, input>>

ConfineNext ==
    \/ ConfineBackup
    \/ ConfinePut
    \/ Tick
    \/ LatestDelete
    \/ ConfineDeleteOlderThan
    \/ ConfineRotateBackups

SpecConfine == ConfineInit /\ [][ConfineNext]_vars

\* a key is a backup of the logical name
BackupOf(key, name) == KeyMatch(key).matched /\ KeyRecord(key).filename = name

\* the records of a rotate_backups call that belong to the logical name
OwnBackups(out) == SelectSeq(out.backups, LAMBDA b : b.filename = out.filename)

\* C13: every key delete, delete_older_than and rotate_backups hand to the
\* backend's delete decodes to a record of exactly the requested name, an
\* object that is no such backup stays stored, and rotate_backups deletes of
\* the requested name what the engine gives for the dates of that name alone.
C13_DeletionConfined ==
    ret.op \in {"delete", "delete_older_than", "rotate_backups"} =>
        /\ \A key \in SeqToSet(ret.deleted) : BackupOf(key, ret.filename)
        /\ (ret.op = "rotate_backups" /\ ret.raised = "") =>
              {k \in SeqToSet(ret.deleted) : BackupOf(k, ret.filename)} =
                  SeqToSet(DoomedKeys(OwnBackups(ret),
                                      EngineToDelete(ret.rotate, BackupsDate(OwnBackups(ret)),
                                                     ret.now)))

=============================================================================
